---------------------------- MODULE Spec2Model ----------------------------
(***************************************************************************)
(* A model of the signal alignment and quantization pipeline of            *)
(* samplernn_pytorch:                                                      *)
(*   - SampleRNNDataset (src/samplernn/dataset.py): item access, the       *)
(*     alignment lengths, the conditioning streams and their fusion, and   *)
(*     the expansion of the linguistic annotation lines;                   *)
(*   - SampleRNNQuantizer (src/samplernn/utils.py): the linear and the     *)
(*     mu-law codec.                                                       *)
(*                                                                         *)
(* Real numbers are exact rationals [n, d] in lowest terms (d > 0): the    *)
(* rounding of the floating-point arithmetic is not modelled.  Arrays are  *)
(* sequences, so index i of the code is index i + 1 here.                  *)
(***************************************************************************)
EXTENDS Integers, Sequences, FiniteSets, TLC

VARIABLES
    conf,                         \* execution.experiment.conf (architecture, conditionants)
    return_full_utterance,        \* SampleRNNDataset.return_full_utterance
    wav_file,                     \* the samples soundfile.read returns for the utterance
    aco_frames,                   \* frame count of the utterance's .cc/.fv/.lf0 files
    lab_file,                     \* the parsed lines of the utterance's .lab file
    conds_linguistic_categories,  \* SampleRNNDataset.conds_linguistic_categories
    conds_linguistic_stads,       \* speaker['conds_linguistic_stads'] = (mean, scale)
    wav_len,                      \* utterance['wav_len'] in data.utterances_info
    item,                         \* what the last __getitem__ did and returned
    ling,                         \* what the last _get_utterance_conds_linguistic returned
    q_type,                       \* SampleRNNQuantizer.q_type
    q_levels,                     \* SampleRNNQuantizer.q_levels
    samples,                      \* the tensor handed to quantize
    quantized,                    \* the result of the last quantize
    dequantized,                  \* the result of the last dequantize
    quantizer_conf,               \* conf.quantizer, as the configuration file gives it
    built,                        \* which of the quantizer and the dataset are constructed
    data,                         \* execution.experiment.data: the corpus index
    utterances_ids,               \* SampleRNNDataset.utterances_ids: the list of data it refers to
    pase_seed_duration,           \* SampleRNNDataset.pase_seed_duration
    returned,                     \* what the last __len__ or get_item_paths returned
    max_workers,                  \* ThreadPoolExecutor._max_workers
    work,                         \* one entry per listed path: its work item and its state
    threads,                      \* the number of worker threads of the executor
    call                          \* the position of generate_acoustic_conds

itemVars == <<conf, return_full_utterance, wav_file, aco_frames, wav_len, item>>
labVars == <<lab_file, conds_linguistic_categories, conds_linguistic_stads, ling>>
quantVars == <<q_type, q_levels, samples, quantized, dequantized>>
confVars == <<quantizer_conf, built>>
corpusVars == <<data, utterances_ids, pase_seed_duration, returned>>
poolVars == <<max_workers, work, threads, call>>
restVars == <<confVars, corpusVars, poolVars>>
vars == <<itemVars, labVars, quantVars, restVars>>

-----------------------------------------------------------------------------
(* Bounds of the model.                                                    *)

MaxFrameSize == 2
MaxSeqLen == 2
MaxWavLen == 6
MaxAcoFrames == 4
MaxItemSegs == 1
MaxSegs == 2
CcOrder == 1
MaxSamples == 2

-----------------------------------------------------------------------------
(* Exact rational arithmetic.                                              *)

Min(a, b) == IF a <= b THEN a ELSE b
Max(a, b) == IF a >= b THEN a ELSE b
Abs(a) == IF a < 0 THEN -a ELSE a
Sign(a) == IF a < 0 THEN -1 ELSE IF a > 0 THEN 1 ELSE 0

RECURSIVE GCD(_, _)
GCD(a, b) == IF b = 0 THEN a ELSE GCD(b, a % b)

Rat(n, d) ==
    LET g == GCD(Abs(n), Abs(d))
        s == IF d < 0 THEN -1 ELSE 1
    IN  [n |-> s * (n \div g), d |-> s * (d \div g)]

Zero == Rat(0, 1)
One == Rat(1, 1)
RatOf(k) == Rat(k, 1)
RatAdd(a, b) == Rat(a.n * b.d + b.n * a.d, a.d * b.d)
RatSub(a, b) == Rat(a.n * b.d - b.n * a.d, a.d * b.d)
RatMul(a, b) == Rat(a.n * b.n, a.d * b.d)
RatDiv(a, b) == Rat(a.n * b.d, a.d * b.n)
RatAbs(a) == [n |-> Abs(a.n), d |-> a.d]
RatSign(a) == Sign(a.n)
RatLe(a, b) == a.n * b.d <= b.n * a.d
RatLt(a, b) == a.n * b.d < b.n * a.d
\* A float cast to an integer (int(), .long(), a count argument): toward zero.
RatTrunc(a) == Sign(a.n) * (Abs(a.n) \div a.d)

ZeroRow(w) == [c \in 1..w |-> Zero]

-----------------------------------------------------------------------------
(* SampleRNNDataset._get_model_len.                                        *)

\* Mutant: the return_full_utterance flag is ignored, every length rounds up.
GetModelLenAlwaysFull(utterance_wav_len_real) ==
    LET samples_per_forward == conf.frame_size * conf.sequence_length
        next_seq_length_mult ==
            ((utterance_wav_len_real \div samples_per_forward) + 1) * samples_per_forward
    IN  <<next_seq_length_mult,
          RatTrunc(Rat(next_seq_length_mult, conf.frame_size))>>

\* Mutant: full coverage rounds up to the next multiple, an exact multiple
\* staying as it is.
GetModelLenCeil(utterance_wav_len_real) ==
    LET samples_per_forward == conf.frame_size * conf.sequence_length
        next_seq_length_mult ==
            IF ~return_full_utterance
            THEN (utterance_wav_len_real \div samples_per_forward) * samples_per_forward
            ELSE ((utterance_wav_len_real + samples_per_forward - 1)
                     \div samples_per_forward) * samples_per_forward
    IN  <<next_seq_length_mult,
          RatTrunc(Rat(next_seq_length_mult, conf.frame_size))>>

GetModelLen(utterance_wav_len_real) ==
    LET samples_per_forward == conf.frame_size * conf.sequence_length
        next_seq_length_mult ==
            IF ~return_full_utterance
            THEN (utterance_wav_len_real \div samples_per_forward) * samples_per_forward
            ELSE ((utterance_wav_len_real \div samples_per_forward) + 1)
                     * samples_per_forward
    IN  <<next_seq_length_mult,
          RatTrunc(Rat(next_seq_length_mult, conf.frame_size))>>


-----------------------------------------------------------------------------
(* The annotation record.  read_lab_line returns the groups of lab_regex   *)
(* as strings; a field is modelled as a numeral string [kind "num"] or a   *)
(* token string [kind "tok"].  The model keeps the columns LabColumns of   *)
(* the record (numbered as in the code): the two boundaries, one column    *)
(* of each vocabulary and one passthrough column.                          *)

Num(k) == [kind |-> "num", val |-> k]
Tok(s) == [kind |-> "tok", val |-> s]

LabColumns == <<0, 1, 2, 27, 31, 49, 7>>
LingCols == Len(LabColumns)
AcoCols == CcOrder + 3

\* The vocabulary each column of the code is looked up in (lines 263-272).
CategoryOfColumn(col) ==
    CASE col \in {2, 3, 4, 5, 6} -> "phonemes"
      [] col = 27 -> "vowels"
      [] col \in {31, 33, 41} -> "gpos"
      [] col = 49 -> "tobi"
      [] OTHER -> "none"

Categories == {"phonemes", "vowels", "gpos", "tobi"}
Tokens == {"a", "pau", "x"}
\* The order of Python's string comparison on Tokens: "a" < "pau" < "x".
LexRank(t) == CASE t = "a" -> 1 [] t = "pau" -> 2 [] t = "x" -> 3

\* sorted(list(S)) of __init__, lines 56-61.
RECURSIVE SortedList(_)
SortedList(S) ==
    IF S = {} THEN <<>>
    ELSE LET m == CHOOSE t \in S : \A u \in S : LexRank(t) <= LexRank(u)
         IN  <<m>> \o SortedList(S \ {m})

\* list.index(value): the 0-based position of the first occurrence; -1 stands
\* for the ValueError it raises when value is not in the list.
ListIndex(list, value) ==
    IF \E i \in 1..Len(list) : list[i] = value
    THEN (CHOOSE i \in 1..Len(list) :
              /\ list[i] = value
              /\ \A j \in 1..(i - 1) : list[j] # value) - 1
    ELSE -1

\* Lines 259-260: the duration replaces column 0.
WithDuration(lab_line) ==
    [lab_line EXCEPT ![1] = Num(lab_line[2].val - lab_line[1].val)]

\* Lines 262-272: each categorical column is replaced by its index in its
\* vocabulary (the numeral of -1 marks the lookup that raised).
WithIndices(lab_line) ==
    [c \in 1..Len(lab_line) |->
        IF CategoryOfColumn(LabColumns[c]) # "none"
        THEN Num(ListIndex(
                 conds_linguistic_categories[CategoryOfColumn(LabColumns[c])],
                 lab_line[c].val))
        ELSE lab_line[c]]

IndexRaised(lab_line) ==
    \E c \in 1..Len(lab_line) :
        /\ CategoryOfColumn(LabColumns[c]) # "none"
        /\ WithIndices(lab_line)[c].val = -1

\* Line 275: lab_line[lab_line == 'x'] = 0.
IsUnknown(f) == f.kind = "tok" /\ f.val = "x"
WithUnknownsZeroed(lab_line) ==
    [c \in 1..Len(lab_line) |-> IF IsUnknown(lab_line[c]) THEN Num(0) ELSE lab_line[c]]

\* Line 276: astype(float) raises ValueError on a string that is no numeral.
CastRaised(lab_line) == \E c \in 1..Len(lab_line) : lab_line[c].kind # "num"
AsFloat(lab_line) == [c \in 1..Len(lab_line) |-> RatOf(lab_line[c].val)]

\* Lines 259-276 for one line: the record as floats, before normalization.
Substituted(lab_line) == WithUnknownsZeroed(WithIndices(WithDuration(lab_line)))
LineRaises(lab_line) ==
    IndexRaised(WithDuration(lab_line)) \/ CastRaised(Substituted(lab_line))
Encoded(lab_line) == AsFloat(Substituted(lab_line))

\* Mutant: the factor is 1e-5, ten times smaller than the code's 10E-5.
StepsOfDurationE5(duration) ==
    RatTrunc(RatDiv(RatMul(duration, Rat(1, 100000)), RatOf(5)))

\* Line 279: steps_n = (lab_line[0] * 10E-5) / 5, used as a count by np.repeat
\* and np.linspace, which take its integer part.
StepsOfDuration(duration) ==
    RatTrunc(RatDiv(RatMul(duration, Rat(10, 100000)), RatOf(5)))

\* Line 282: (lab_line - mean) / scale.
Normalized(floats) ==
    [c \in 1..Len(floats) |->
        RatDiv(RatSub(floats[c], RatOf(conds_linguistic_stads.mean[c])),
               RatOf(conds_linguistic_stads.scale[c]))]

\* Mutant: the linspace leaves its endpoint out.
LinspaceNoEndpoint(num) == [i \in 1..num |-> Rat(i - 1, num)]

\* np.linspace(0, 1, num): num evenly spaced values, both endpoints included;
\* a single value is the start.
Linspace(num) ==
    [i \in 1..num |-> IF num = 1 THEN Zero ELSE Rat(i - 1, num - 1)]

\* Lines 278-288: the block of one line, steps_n copies of the normalized
\* record with column 1 overwritten by the linspace.
LineBlock(lab_line) ==
    LET floats == Encoded(lab_line)
        steps_n == StepsOfDuration(floats[1])
        normalized == Normalized(floats)
    IN  [i \in 1..steps_n |-> [normalized EXCEPT ![2] = Linspace(steps_n)[i]]]

\* _get_utterance_conds_linguistic, lines 248-297: the blocks of the lines in
\* file order; None when the file has no line; the first line that raises
\* ends the call.
RECURSIVE ExpandFrom(_, _, _)
ExpandFrom(lines, k, acc) ==
    IF k > Len(lines) THEN acc
    ELSE IF LineRaises(lines[k])
         THEN [status |-> "ValueError", none |-> TRUE, rows |-> <<>>]
         ELSE ExpandFrom(lines, k + 1,
                  [status |-> "ok", none |-> FALSE,
                   rows |-> acc.rows \o LineBlock(lines[k])])

GetUtteranceCondsLinguistic(lines) ==
    ExpandFrom(lines, 1, [status |-> "ok", none |-> TRUE, rows |-> <<>>])

-----------------------------------------------------------------------------
(* SampleRNNDataset.__getitem__.                                           *)

\* _get_utterance_conds_acoustic, lines 210-246: one row per frame of the
\* files, AcoCols columns (cepstrum, log-fv, lf0, voicing).  The values,
\* read and interpolated by ahoproc_tools, are opaque: cell (r, c) is a
\* distinct nonzero number.
GetUtteranceCondsAcoustic(frames) ==
    [r \in 1..frames |-> [c \in 1..AcoCols |-> RatOf(10 * r + c)]]

\* Lines 100-103: the waveform cut or zero-padded to the model length.
PadWav(utterance_read_wav, utterance_wav_len_model) ==
    LET utterance_wav_len == Min(utterance_wav_len_model, Len(utterance_read_wav))
    IN  [i \in 1..utterance_wav_len_model |->
            IF i <= utterance_wav_len THEN utterance_read_wav[i] ELSE 0]

\* Mutant: the waveform is returned without the leading frame.
PrependFrameMissing(utterance_wav) == utterance_wav

\* Line 142: frame_size zero samples before the waveform.
PrependFrame(utterance_wav) ==
    [i \in 1..conf.frame_size |-> 0] \o utterance_wav

\* Mutant: a stream longer than the model length is not cut.
ConformCondsUncut(stream, utterance_conds_len_model) ==
    [r \in 1..Max(utterance_conds_len_model, Len(stream)) |->
        IF r <= Len(stream) THEN stream[r] ELSE ZeroRow(conf.utterance_size)]

\* Lines 113-115 and 120-122: the stream copied into a zero matrix of
\* utterance_conds_len_model rows.
ConformConds(stream, utterance_conds_len_model) ==
    LET utterance_conds_len == Min(utterance_conds_len_model, Len(stream))
    IN  [r \in 1..utterance_conds_len_model |->
            IF r <= utterance_conds_len THEN stream[r]
            ELSE ZeroRow(conf.utterance_size)]

\* Mutant: the fused tensor is clipped to the model length like the others.
FuseCondsClipped(linguistic, acoustic, utterance_conds_len_model) ==
    LET size == conf.utterance_size
    IN  [r \in 1..utterance_conds_len_model |->
            [c \in 1..size |->
                IF c <= size - 2
                THEN IF r <= Len(linguistic) THEN linguistic[r][c] ELSE Zero
                ELSE IF r <= Len(acoustic)
                     THEN acoustic[r][AcoCols - (size - c)]
                     ELSE Zero]]

\* Lines 128-134: the linguistic columns and the last two acoustic columns
\* side by side in a zero matrix.
FuseConds(linguistic, acoustic, utterance_conds_len_model) ==
    LET utterance_conds_len ==
            Max(utterance_conds_len_model, Max(Len(linguistic), Len(acoustic)))
        size == conf.utterance_size
    IN  [r \in 1..utterance_conds_len |->
            [c \in 1..size |->
                IF c <= size - 2
                THEN IF r <= Len(linguistic) THEN linguistic[r][c] ELSE Zero
                ELSE IF r <= Len(acoustic)
                     THEN acoustic[r][AcoCols - (size - c)]
                     ELSE Zero]]

\* What a call that did not return leaves behind.
Failed(how, lens) ==
    [status |-> how, wav_len_model |-> lens[1], conds_len_model |-> lens[2],
     utterance_wav |-> <<>>, utterance_conds |-> <<>>]

Returned(lens, utterance_wav, utterance_conds) ==
    [status |-> "ok", wav_len_model |-> lens[1], conds_len_model |-> lens[2],
     utterance_wav |-> PrependFrame(utterance_wav),
     utterance_conds |-> utterance_conds]

\* Lines 86-149.  A linguistic stream that is None has no shape (line 120 or
\* 128 raises AttributeError); the else branch logs and exits.
GetItemResultOf(utterance_read_wav, utterance_aco_frames, utterance_lab) ==
    LET lens == GetModelLen(Len(utterance_read_wav))
        utterance_wav == PadWav(utterance_read_wav, lens[1])
        type == conf.utterance_type
        linguistic == GetUtteranceCondsLinguistic(utterance_lab)
        acoustic == GetUtteranceCondsAcoustic(utterance_aco_frames)
    IN  CASE type = "acoustic" ->
                Returned(lens, utterance_wav, ConformConds(acoustic, lens[2]))
          [] type \in {"linguistic", "linguistic_lf0"} ->
                IF linguistic.status # "ok" THEN Failed(linguistic.status, lens)
                ELSE IF linguistic.none THEN Failed("AttributeError", lens)
                ELSE IF type = "linguistic"
                     THEN Returned(lens, utterance_wav,
                                   ConformConds(linguistic.rows, lens[2]))
                     ELSE Returned(lens, utterance_wav,
                                   FuseConds(linguistic.rows, acoustic, lens[2]))
          [] OTHER -> Failed("exit", lens)

\* The item of the utterance whose files are wav_file, aco_frames, lab_file.
GetItemResult == GetItemResultOf(wav_file, aco_frames, lab_file)

\* Line 145 patches the utterance's length once the conditioning is built.
GetItem ==
    /\ LET result == GetItemResult
       IN  /\ item' = result
           /\ wav_len' = IF result.status = "ok" THEN Len(wav_file) ELSE wav_len
    /\ UNCHANGED <<conf, return_full_utterance, wav_file, aco_frames>>
    /\ UNCHANGED <<labVars, quantVars, restVars>>

\* The direct call of _get_utterance_conds_linguistic on the utterance.
GetLinguistic ==
    /\ ling' = GetUtteranceCondsLinguistic(lab_file)
    /\ UNCHANGED <<lab_file, conds_linguistic_categories, conds_linguistic_stads>>
    /\ UNCHANGED <<itemVars, quantVars, restVars>>

-----------------------------------------------------------------------------
(* Initial states.                                                         *)

NoItem ==
    [status |-> "none", wav_len_model |-> 0, conds_len_model |-> 0,
     utterance_wav |-> <<>>, utterance_conds |-> <<>>]
NoLing == [status |-> "none", none |-> TRUE, rows |-> <<>>]

SeqsUpTo(S, n) == UNION {[1..k -> S] : k \in 0..n}

\* A line of a .lab file: boundaries, phoneme, vowel, gpos, tobi, passthrough.
LabLine(start, end, phoneme, vowel, gpos, tobi, passthrough) ==
    <<Num(start), Num(end), Tok(phoneme), Tok(vowel), Tok(gpos), Tok(tobi),
      passthrough>>

\* Segments of 0, 1 and 4 frames of 5 ms (the boundaries count 100 ns).
Boundaries == {<<0, 49999>>, <<0, 50000>>, <<50000, 250000>>}

UtteranceTypes == {"acoustic", "linguistic", "linguistic_lf0", "other"}
UtteranceSize(type) ==
    CASE type = "acoustic" -> AcoCols
      [] type = "linguistic" -> LingCols
      [] OTHER -> LingCols + 2

\* The frame sizes and sequence lengths of the model, and frame_size = 8,
\* sequence_length = 4 with an utterance of 50 samples.
Architectures ==
    {<<f, s>> : f \in 1..MaxFrameSize, s \in 1..MaxSeqLen} \cup {<<8, 4>>}
WavLens(arch) == IF arch = <<8, 4>> THEN {50} ELSE 0..MaxWavLen

AllCategories == [cat \in Categories |-> SortedList(Tokens)]
Stads == [mean |-> <<40000, 1, 1, 0, 0, 0, 1>>, scale |-> <<50000, 2, 2, 1, 1, 1, 3>>]

\* The .lab lines of the item accesses: valid lines, and one whose phoneme is
\* in no vocabulary.
ItemLabLines ==
    {LabLine(b[1], b[2], "a", "a", "a", "a", Num(3)) : b \in Boundaries}
        \cup {LabLine(0, 50000, "sil", "a", "a", "a", Num(3))}

\* The files a conditioning mode does not read are left empty.
ItemFiles(type) ==
    CASE type = "acoustic" -> {<<a, <<>> >> : a \in 0..MaxAcoFrames}
      [] type = "linguistic" -> {<<0, l>> : l \in SeqsUpTo(ItemLabLines, MaxItemSegs)}
      [] type = "linguistic_lf0" ->
            {<<a, l>> : a \in 0..MaxAcoFrames, l \in SeqsUpTo(ItemLabLines, MaxItemSegs)}
      [] OTHER -> {<<0, <<>> >>}

LINEAR_QUANT == 0
ULAW_QUANT == 1

\* A value of the configuration file, written as its Python literal, and
\* bool(value) of line 81.
Truthy(value) == value \notin {"False", "None", "0", "''"}

\* Lines 80-82: the two fields of a quantizer built from a configuration.
QTypeOf(quantizer) ==
    IF Truthy(quantizer.q_type_ulaw) THEN ULAW_QUANT ELSE LINEAR_QUANT
QLevelsOf(quantizer) == quantizer.q_levels

\* The corpus index the experiment loads: MaxUtts utterances of one speaker
\* of one dataset, the last one held out for validation and adaptation.
MaxUtts == 3
Utterances == 1..MaxUtts
SplitLists ==
    {"modeling_utterances_ids_train", "modeling_utterances_ids_val",
     "modeling_utterances_ids_test", "adaptation_utterances_ids_train",
     "adaptation_utterances_ids_val", "adaptation_utterances_ids_test"}
Corpus ==
    [datasets_info |-> <<[wavs_folder_path |-> "wavs/"]>>,
     speakers_info |-> <<[dataset_id |-> 1, name |-> "speaker"]>>,
     utterances_info |->
         [u \in Utterances |-> [speaker_id |-> 1, path |-> u, wav_len |-> 0]],
     utterances_conds_linguistic_categories |-> [cat \in Categories |-> Tokens],
     utterances_ids |->
         [list \in SplitLists |->
             CASE list = "modeling_utterances_ids_train" ->
                      [i \in 1..(MaxUtts - 1) |-> i]
               [] list \in {"modeling_utterances_ids_val",
                            "adaptation_utterances_ids_train"} -> <<MaxUtts>>
               [] OTHER -> <<>>]]

NoReturn == [of |-> "none", value |-> 0]

\* A dataset of the modeling training split, none of whose operations but
\* item access is used.
CorpusIdle ==
    /\ data = Corpus
    /\ utterances_ids = "modeling_utterances_ids_train"
    /\ pase_seed_duration = 60
    /\ returned = NoReturn

\* No bulk conversion is called.
PoolIdle ==
    /\ max_workers = 50
    /\ work = <<>>
    /\ threads = 0
    /\ call = "idle"

\* The quantizer and the dataset are constructed, the quantizer from the
\* configuration that gives its fields.
ConfBuilt ==
    /\ built = [quantizer |-> TRUE, dataset |-> TRUE]
    /\ quantizer_conf =
           [q_type_ulaw |-> IF q_type = ULAW_QUANT THEN "True" ELSE "False",
            q_levels |-> q_levels]

RestIdle == ConfBuilt /\ CorpusIdle /\ PoolIdle

QuantIdle ==
    /\ q_type = 0
    /\ q_levels = 2
    /\ samples = <<>>
    /\ quantized = <<>>
    /\ dequantized = <<>>

Init ==
    /\ \E arch \in Architectures, type \in UtteranceTypes :
          /\ conf = [frame_size |-> arch[1], sequence_length |-> arch[2],
                     utterance_type |-> type, utterance_size |-> UtteranceSize(type)]
          /\ \E n \in WavLens(arch) : wav_file = [i \in 1..n |-> i]
          /\ \E files \in ItemFiles(type) :
                /\ aco_frames = files[1]
                /\ lab_file = files[2]
    /\ return_full_utterance \in BOOLEAN
    /\ conds_linguistic_categories = AllCategories
    /\ conds_linguistic_stads = Stads
    /\ wav_len = 0
    /\ item = NoItem
    /\ ling = NoLing
    /\ QuantIdle
    /\ RestIdle

Next == GetItem

Spec == Init /\ [][Next]_vars

-----------------------------------------------------------------------------
(* The specification of the linguistic expander alone: the vocabularies    *)
(* and the .lab file vary, _get_utterance_conds_linguistic is called.      *)

ItemIdle ==
    /\ conf = [frame_size |-> 1, sequence_length |-> 1,
               utterance_type |-> "linguistic", utterance_size |-> LingCols]
    /\ return_full_utterance = FALSE
    /\ wav_file = <<>>
    /\ aco_frames = 0
    /\ wav_len = 0
    /\ item = NoItem

\* The values observed in the corpus, per vocabulary: the unknown marker may
\* or may not be among them.
ObservedPhonemes == {{"a"}, {"a", "x"}, {"a", "pau", "x"}}
ObservedTobi == {{"a"}, {"a", "x"}}

LabLines ==
    {LabLine(b[1], b[2], phoneme, "a", "a", tobi, passthrough) :
        b \in Boundaries, phoneme \in {"a", "x"}, tobi \in {"a", "x"},
        passthrough \in {Num(3), Tok("x")}}

InitLab ==
    /\ ItemIdle
    /\ QuantIdle
    /\ RestIdle
    /\ \E phonemes \in ObservedPhonemes, tobi \in ObservedTobi :
          conds_linguistic_categories =
              [cat \in Categories |->
                  CASE cat = "phonemes" -> SortedList(phonemes)
                    [] cat = "tobi" -> SortedList(tobi)
                    [] OTHER -> SortedList(Tokens)]
    /\ conds_linguistic_stads = Stads
    /\ lab_file \in SeqsUpTo(LabLines, MaxSegs)
    /\ ling = NoLing

NextLab == GetLinguistic

SpecLab == InitLab /\ [][NextLab]_vars

-----------------------------------------------------------------------------
(* SampleRNNQuantizer.                                                     *)

EPSILON == Rat(1, 100)
EPSILONs == Rat(1, 1000000)
MU == 255

\* _LOG_MU1 is ln(256): log(a) / _LOG_MU1 is the logarithm of a in base 256
\* and exp(c * _LOG_MU1) is 256^c.  Both are exact where the model uses
\* them: a is a power of two up to 256, and 8 * c is a natural number.
Log256(a) == Rat(CHOOSE j \in 0..8 : RatOf(2^j) = a, 8)
Pow256(c) == RatOf(2^((8 * c.n) \div c.d))

TensorMin(tensor) ==
    CHOOSE x \in {tensor[i] : i \in DOMAIN tensor} :
        \A i \in DOMAIN tensor : RatLe(x, tensor[i])
TensorMax(tensor) ==
    CHOOSE x \in {tensor[i] : i \in DOMAIN tensor} :
        \A i \in DOMAIN tensor : RatLe(tensor[i], x)

\* Lines 103-109.  A tensor whose samples are all equal has maximum 0 after
\* the subtraction of its minimum: line 106 divides 0 by 0, every sample is
\* NaN, and the cast of NaN by long() is undefined: it yields nan_long.
LinearQuantize(tensor, nan_long) ==
    LET lowest == TensorMin(tensor)
        shifted == [i \in DOMAIN tensor |-> RatSub(tensor[i], lowest)]
        highest == TensorMax(shifted)
    IN  [i \in DOMAIN tensor |->
            IF highest = Zero THEN nan_long
            ELSE RatTrunc(RatAdd(RatMul(RatDiv(shifted[i], highest),
                                        RatSub(RatOf(q_levels), EPSILON)),
                                 RatDiv(EPSILON, RatOf(2))))]

\* Lines 111-112.
LinearDequantize(symbols) ==
    [i \in DOMAIN symbols |->
        RatSub(RatDiv(RatOf(symbols[i]), Rat(q_levels, 2)), One)]

\* Lines 120-123, with max_value = 1.0.
Ulaw(x) ==
    LET v == RatDiv(RatOf(MU), One)
    IN  RatMul(RatOf(RatSign(x)), Log256(RatAdd(RatMul(v, RatAbs(x)), One)))

\* Lines 125-128.
Iulaw(c) ==
    LET x == RatSub(Pow256(RatAbs(c)), One)
    IN  RatDiv(RatMul(RatOf(RatSign(c)), x), RatOf(MU))

\* Lines 130-133.
Midrise(x) ==
    RatTrunc(RatMul(RatMul(Rat(1, 2), RatAdd(x, One)),
                    RatSub(RatOf(q_levels), EPSILONs)))

\* Mutant: the inverse midrise forgets to shift the range back to [-1, 1).
ImidriseNoShift(xq) == RatDiv(RatMul(RatOf(xq), RatOf(2)), RatOf(q_levels))

\* Lines 135-136.
Imidrise(xq) ==
    RatSub(RatDiv(RatMul(RatOf(xq), RatOf(2)), RatOf(q_levels)), One)

\* Lines 114-115.
UlawQuantize(tensor) == [i \in DOMAIN tensor |-> Midrise(Ulaw(tensor[i]))]

\* Lines 117-118.
UlawDequantize(symbols) == [i \in DOMAIN symbols |-> Iulaw(Imidrise(symbols[i]))]

\* What long() makes of NaN: 0 on some builds, the most negative integer on
\* others.  The integers of the model are 32 bits wide: -(2^20) stands for
\* the most negative 64-bit integer.
NaNAsLong == {0, -(2^20)}

\* Lines 87-93.
QuantizeResult(tensor, nan_long) ==
    IF q_type = LINEAR_QUANT THEN LinearQuantize(tensor, nan_long)
    ELSE IF q_type = ULAW_QUANT THEN UlawQuantize(tensor)
    ELSE "NotImplemented"

\* Lines 95-101.
DequantizeResult(symbols) ==
    IF q_type = LINEAR_QUANT THEN LinearDequantize(symbols)
    ELSE IF q_type = ULAW_QUANT THEN UlawDequantize(symbols)
    ELSE "NotImplemented"

Quantize ==
    /\ \E nan_long \in NaNAsLong : quantized' = QuantizeResult(samples, nan_long)
    /\ UNCHANGED <<q_type, q_levels, samples, dequantized>>
    /\ UNCHANGED <<itemVars, labVars, restVars>>

\* dequantize applied to the symbols the last quantize returned.
Dequantize ==
    /\ quantized # <<>>
    /\ dequantized' = DequantizeResult(quantized)
    /\ UNCHANGED <<q_type, q_levels, samples, quantized>>
    /\ UNCHANGED <<itemVars, labVars, restVars>>

\* The numbers of levels of the model: 2 * s / q_levels - 1 is then a
\* multiple of 1/8 for every symbol s, where Pow256 is exact.
QLevels == {1, 2, 4, 8, 16}

\* The amplitudes of the model: -1, 0, 1 and the values +-(2^j - 1) / 255
\* between them, where Log256 is exact.
Amplitudes == {Rat(s * (2^j - 1), MU) : j \in 0..8, s \in {-1, 1}}

LabIdle ==
    /\ lab_file = <<>>
    /\ conds_linguistic_categories = AllCategories
    /\ conds_linguistic_stads = Stads
    /\ ling = NoLing

InitQuant ==
    /\ ItemIdle
    /\ LabIdle
    /\ q_type \in {LINEAR_QUANT, ULAW_QUANT}
    /\ q_levels \in QLevels
    /\ samples \in SeqsUpTo(Amplitudes, MaxSamples) \ {<<>>}
    /\ quantized = <<>>
    /\ dequantized = <<>>
    /\ RestIdle

NextQuant == Quantize \/ Dequantize

SpecQuant == InitQuant /\ [][NextQuant]_vars

-----------------------------------------------------------------------------
(* Claims on the alignment lengths and on item access (Spec).              *)

SamplesPerForward == conf.frame_size * conf.sequence_length
RawLen == Len(wav_file)
Called == item.status # "none"
ReturnedOk == item.status = "ok"
IsExample == conf.frame_size = 8 /\ conf.sequence_length = 4 /\ RawLen = 50

\* C1: in truncating mode target_samples is a multiple of samples_per_forward,
\* at most N, the largest such multiple, and 0 when N < samples_per_forward;
\* frame_size = 8, sequence_length = 4, N = 50 gives 32 samples and 4 frames.
C1_TruncatingLength ==
    (Called /\ ~return_full_utterance) =>
        /\ item.wav_len_model % SamplesPerForward = 0
        /\ item.wav_len_model >= 0
        /\ item.wav_len_model <= RawLen
        /\ RawLen - item.wav_len_model < SamplesPerForward
        /\ (RawLen < SamplesPerForward => item.wav_len_model = 0)
        /\ (IsExample => item.wav_len_model = 32 /\ item.conds_len_model = 4)

C1_Witness ==
    /\ ReturnedOk /\ ~return_full_utterance /\ IsExample
    /\ item.wav_len_model = 32 /\ item.conds_len_model = 4

\* C2: in full-coverage mode target_samples is the smallest multiple of
\* samples_per_forward strictly greater than N, so N + samples_per_forward
\* when N is a multiple; the example gives 64 samples and 8 frames.
C2_FullCoverageLength ==
    (Called /\ return_full_utterance) =>
        /\ item.wav_len_model % SamplesPerForward = 0
        /\ item.wav_len_model > RawLen
        /\ item.wav_len_model - SamplesPerForward <= RawLen
        /\ (RawLen % SamplesPerForward = 0 =>
                item.wav_len_model = RawLen + SamplesPerForward)
        /\ (IsExample => item.wav_len_model = 64 /\ item.conds_len_model = 8)

C2_Witness ==
    /\ ReturnedOk /\ return_full_utterance
    /\ RawLen > 0 /\ RawLen % SamplesPerForward = 0 /\ SamplesPerForward > 1
    /\ item.wav_len_model = RawLen + SamplesPerForward

SourceStream ==
    IF conf.utterance_type = "acoustic"
    THEN GetUtteranceCondsAcoustic(aco_frames)
    ELSE GetUtteranceCondsLinguistic(lab_file).rows

\* C3: in the acoustic and the linguistic mode the conditioning tensor has
\* target_samples / frame_size rows, a whole number of sequence_length blocks;
\* its first min(target_frames, L) rows are the source stream's, the others
\* are zero, and source rows from target_frames on are dropped.
C3_ConformedConds ==
    (ReturnedOk /\ conf.utterance_type \in {"acoustic", "linguistic"}) =>
        LET target_frames == item.wav_len_model \div conf.frame_size
        IN  /\ item.wav_len_model % conf.frame_size = 0
            /\ target_frames % conf.sequence_length = 0
            /\ Len(item.utterance_conds) = target_frames
            /\ \A r \in 1..target_frames :
                  /\ Len(item.utterance_conds[r]) = conf.utterance_size
                  /\ r <= Len(SourceStream) => item.utterance_conds[r] = SourceStream[r]
                  /\ r > Len(SourceStream) =>
                        \A c \in 1..conf.utterance_size :
                            item.utterance_conds[r][c] = Zero

C3_Witness ==
    /\ ReturnedOk /\ conf.utterance_type = "linguistic"
    /\ Len(SourceStream) > 0
    /\ Len(item.utterance_conds) > Len(SourceStream)
    /\ item.utterance_conds[1] = SourceStream[1]

\* C4: the returned waveform has frame_size + target_samples samples:
\* frame_size zeros, then the first min(N, target_samples) raw samples in
\* order, then zeros; in full-coverage mode no raw sample is dropped.
C4_Waveform ==
    ReturnedOk =>
        LET kept == Min(RawLen, item.wav_len_model)
        IN  /\ Len(item.utterance_wav) = conf.frame_size + item.wav_len_model
            /\ \A i \in 1..Len(item.utterance_wav) :
                  item.utterance_wav[i] =
                      IF i > conf.frame_size /\ i <= conf.frame_size + kept
                      THEN wav_file[i - conf.frame_size]
                      ELSE 0
            /\ (return_full_utterance => kept = RawLen)

C4_Witness ==
    /\ ReturnedOk /\ ~return_full_utterance
    /\ item.wav_len_model > 0 /\ RawLen > item.wav_len_model
    /\ item.utterance_wav[conf.frame_size + 1] = wav_file[1]

\* C5: in the linguistic+lf0 mode the tensor has max(target_frames,
\* linguistic_len, acoustic_len) rows; in row r all columns but the last two
\* hold the linguistic row r (zeros past its length) and the last two hold the
\* last two acoustic channels of row r (zeros past its length).
C5_FusedConds ==
    (ReturnedOk /\ conf.utterance_type = "linguistic_lf0") =>
        LET linguistic == GetUtteranceCondsLinguistic(lab_file).rows
            acoustic == GetUtteranceCondsAcoustic(aco_frames)
            size == conf.utterance_size
            rows == item.utterance_conds
        IN  /\ Len(rows) >= item.conds_len_model
            /\ Len(rows) >= Len(linguistic)
            /\ Len(rows) >= Len(acoustic)
            /\ Len(rows) \in {item.conds_len_model, Len(linguistic), Len(acoustic)}
            /\ \A r \in 1..Len(rows) :
                  /\ Len(rows[r]) = size
                  /\ \A c \in 1..(size - 2) :
                        rows[r][c] = IF r <= Len(linguistic)
                                     THEN linguistic[r][c] ELSE Zero
                  /\ rows[r][size - 1] = IF r <= Len(acoustic)
                                         THEN acoustic[r][AcoCols - 1] ELSE Zero
                  /\ rows[r][size] = IF r <= Len(acoustic)
                                     THEN acoustic[r][AcoCols] ELSE Zero

C5_Witness ==
    /\ ReturnedOk /\ conf.utterance_type = "linguistic_lf0"
    /\ Len(item.utterance_conds) > item.conds_len_model
    /\ Len(GetUtteranceCondsLinguistic(lab_file).rows) > aco_frames
    /\ aco_frames > 0

-----------------------------------------------------------------------------
(* Claims on the linguistic expander (SpecLab).                            *)

Expanded == ling.status = "ok" /\ ~ling.none
Segments == 1..Len(lab_file)
CategoricalColumns ==
    {c \in 1..LingCols : CategoryOfColumn(LabColumns[c]) # "none"}
SegDuration(i) == lab_file[i][2].val - lab_file[i][1].val
\* The frames of 5 ms in a duration counted in units of 100 ns.
FramesOf(i) == SegDuration(i) \div 50000
RECURSIVE FramesBefore(_)
FramesBefore(i) == IF i <= 1 THEN 0 ELSE FramesBefore(i - 1) + FramesOf(i - 1)
BlockRow(i, k) == ling.rows[FramesBefore(i) + k]
NormalizedValue(v, c) ==
    Rat(v - conds_linguistic_stads.mean[c], conds_linguistic_stads.scale[c])
PassthroughValue(i) ==
    IF lab_file[i][LingCols].kind = "num" THEN lab_file[i][LingCols].val ELSE 0

\* C6 (as claimed): a categorical field holding the unknown marker is encoded
\* as 0 and the expander never raises, whether or not the marker is in the
\* category's vocabulary.
C6_UnknownMarkerEncodedZero ==
    ling.status # "none" =>
        /\ ling.status = "ok"
        /\ \A i \in Segments : \A c \in CategoricalColumns :
              lab_file[i][c] = Tok("x") =>
                  \A k \in 1..FramesOf(i) : BlockRow(i, k)[c] = NormalizedValue(0, c)

\* The rows up to segment i if a segment of duration d had floor(d * 1e-5 / 5).
RECURSIVE ClaimedFramesUpTo(_)
ClaimedFramesUpTo(i) ==
    IF i = 0 THEN 0 ELSE ClaimedFramesUpTo(i - 1) + (SegDuration(i) \div 500000)

\* C7 (as claimed): segment i emits floor(d_i * 1e-5 / 5) rows, so the output
\* has the sum of these over the segments.
C7_RowsPerSegmentE5 ==
    Expanded => Len(ling.rows) = ClaimedFramesUpTo(Len(lab_file))

\* C7 (amended): segment i emits floor(d_i * 10E-5 / 5) = floor(d_i / 50000)
\* rows, computed from the raw duration; a segment of 0 steps emits none; the
\* blocks follow one another in file order, so the output has the sum of the
\* step counts as its row count.
C7_RowsPerSegment ==
    Expanded =>
        /\ Len(ling.rows) = FramesBefore(Len(lab_file) + 1)
        /\ \A i \in Segments : \A k \in 1..FramesOf(i) :
              /\ BlockRow(i, k)[1] = NormalizedValue(SegDuration(i), 1)
              /\ BlockRow(i, k)[LingCols] = NormalizedValue(PassthroughValue(i), LingCols)

C7_Witness ==
    /\ Expanded
    /\ Len(lab_file) = 2
    /\ SegDuration(1) = 50000 /\ SegDuration(2) = 200000
    /\ Len(ling.rows) = 5
    /\ ling.rows[1][1] # ling.rows[2][1]

\* C8 (as claimed): in the block of every segment of at least one row, the
\* single-row block included, column 1 holds 0 in the first row and 1 in the
\* last.
C8_RelativeDurationEndsAtOne ==
    Expanded =>
        \A i \in Segments : FramesOf(i) >= 1 =>
            /\ BlockRow(i, 1)[2] = Zero
            /\ BlockRow(i, FramesOf(i))[2] = One

\* C8 (amended): in the block of a segment of at least two rows column 1
\* increases strictly from 0 in the first row to 1 in the last; the block of
\* a segment of one row holds 0; the column is not normalized, and every
\* other column repeats its normalized value in all rows of the block.
C8_RelativeDuration ==
    Expanded =>
        \A i \in Segments : FramesOf(i) >= 1 =>
            /\ BlockRow(i, 1)[2] = Zero
            /\ FramesOf(i) >= 2 => BlockRow(i, FramesOf(i))[2] = One
            /\ \A k \in 1..(FramesOf(i) - 1) :
                  RatLt(BlockRow(i, k)[2], BlockRow(i, k + 1)[2])
            /\ \A k \in 1..FramesOf(i) :
                  /\ BlockRow(i, k)[2] = Rat(k - 1, Max(FramesOf(i) - 1, 1))
                  /\ \A c \in (1..LingCols) \ {2} : BlockRow(i, k)[c] = BlockRow(i, 1)[c]
                  /\ BlockRow(i, k)[1] = NormalizedValue(SegDuration(i), 1)

C8_Witness ==
    /\ Expanded
    /\ \E i, j \in Segments :
          /\ FramesOf(i) = 1 /\ BlockRow(i, 1)[2] = Zero
          /\ FramesOf(j) = 4 /\ BlockRow(j, 4)[2] = One
          /\ BlockRow(j, 2)[2] = Rat(1, 3)

-----------------------------------------------------------------------------
(* Claims on the quantizer (SpecQuant).                                    *)

\* C9 (as claimed): under both strategies every symbol quantize returns is
\* at least 0 and below levels, a tensor of equal samples included.
C9_SymbolsInRange ==
    quantized # <<>> =>
        \A i \in DOMAIN quantized : quantized[i] >= 0 /\ quantized[i] < q_levels

AbsError(i) == RatAbs(RatSub(dequantized[i], samples[i]))
UlawRoundTrip == q_type = ULAW_QUANT /\ dequantized # <<>>

\* C10 (as claimed): under mu-law |dequantize(quantize(x)) - x| <= 2 / levels
\* for every sample.
C10_RoundTripTwoOverLevels ==
    UlawRoundTrip =>
        \A i \in DOMAIN samples : RatLe(AbsError(i), Rat(2, q_levels))

\* C10 (amended): under mu-law |dequantize(quantize(x)) - x| <= 12 / levels
\* for every sample: the step 2 / levels of the companded value is stretched
\* by the inverse companding, whose slope reaches ln(256) * 256 / 255.
C10_RoundTripBound ==
    UlawRoundTrip =>
        \A i \in DOMAIN samples : RatLe(AbsError(i), Rat(12, q_levels))

C10_Witness ==
    /\ UlawRoundTrip
    /\ q_levels = 16
    /\ \E i \in DOMAIN samples :
          /\ samples[i] = One
          /\ quantized[i] = 15
          /\ RatLt(Rat(2, q_levels), AbsError(i))

-----------------------------------------------------------------------------
(* The operations of SampleRNNDataset on the corpus index.                 *)

\* The files of utterance u on disk: u + 1 samples, u acoustic frames, and
\* one annotation line, whose phoneme is in no vocabulary for utterance 2.
FilesOf(u) ==
    [wav |-> [i \in 1..(u + 1) |-> i],
     aco |-> u,
     lab |-> IF u = 2 THEN <<LabLine(0, 50000, "sil", "a", "a", "a", Num(3))>>
             ELSE <<LabLine(0, 50000, "a", "a", "a", "a", Num(3))>>]

\* The list self.utterances_ids refers to: the assignments of lines 66-84 bind
\* the attribute to the list object of data, they do not copy it.
UtterancesIdsList == data.utterances_ids[utterances_ids]

\* Lines 86-149 for the index i - 1.  Lines 88-90 resolve the utterance
\* (None is not subscriptable, a position past the end is an IndexError),
\* line 93 reads its audio, line 145 patches its entry of the index.
GetItemAt(i) ==
    /\ UNCHANGED <<conf, return_full_utterance>>
    /\ UNCHANGED <<conds_linguistic_categories, conds_linguistic_stads, ling>>
    /\ IF utterances_ids = "None" \/ i > Len(UtterancesIdsList)
       THEN /\ item' = Failed(IF utterances_ids = "None" THEN "TypeError"
                              ELSE "IndexError", <<0, 0>>)
            /\ UNCHANGED <<wav_file, aco_frames, lab_file, wav_len, data>>
       ELSE LET u == UtterancesIdsList[i]
                files == FilesOf(u)
                result == GetItemResultOf(files.wav, files.aco, files.lab)
            IN  /\ wav_file' = files.wav
                /\ aco_frames' = files.aco
                /\ lab_file' = files.lab
                /\ item' = result
                /\ wav_len' = IF result.status = "ok" THEN Len(files.wav)
                              ELSE data.utterances_info[u].wav_len
                /\ data' = IF result.status = "ok"
                           THEN [data EXCEPT
                                    !.utterances_info[u].wav_len = Len(files.wav)]
                           ELSE data
    /\ UNCHANGED <<utterances_ids, pase_seed_duration, returned>>
    /\ UNCHANGED <<quantVars, confVars, poolVars>>

\* Lines 151-152; -1 stands for the TypeError of len(None).
DatasetLen ==
    /\ returned' = [of |-> "__len__",
                    value |-> IF utterances_ids = "None" THEN -1
                              ELSE Len(UtterancesIdsList)]
    /\ UNCHANGED <<data, utterances_ids, pase_seed_duration>>
    /\ UNCHANGED <<itemVars, labVars, quantVars, confVars, poolVars>>

\* The rearrangements of a list.
Rearrangements(list) ==
    {[i \in 1..Len(list) |-> list[f[i]]] :
        f \in {g \in [1..Len(list) -> 1..Len(list)] :
                  \A j, k \in 1..Len(list) : g[j] = g[k] => j = k}}

\* Mutant: the dataset shuffles a copy of the list it was given.
ShuffledDataNoAlias(permutation) == data

\* Lines 154-155: random.shuffle rearranges the list object in place, and
\* the object is the list of data.
ShuffledData(permutation) ==
    [data EXCEPT !.utterances_ids[utterances_ids] = permutation]

\* Lines 154-155; random.shuffle(None) raises and changes nothing.
ShuffleUtterances ==
    /\ utterances_ids # "None"
    /\ \E permutation \in Rearrangements(UtterancesIdsList) :
          data' = ShuffledData(permutation)
    /\ UNCHANGED <<utterances_ids, pase_seed_duration, returned>>
    /\ UNCHANGED <<itemVars, labVars, quantVars, confVars, poolVars>>

\* Lines 157-169: the paths are built from the utterance's path; -1 stands
\* for the TypeError or IndexError of line 158.
GetItemPaths(i) ==
    /\ returned' = [of |-> "get_item_paths",
                    value |-> IF utterances_ids = "None" \/ i > Len(UtterancesIdsList)
                              THEN -1
                              ELSE data.utterances_info[UtterancesIdsList[i]].path]
    /\ UNCHANGED <<data, utterances_ids, pase_seed_duration>>
    /\ UNCHANGED <<itemVars, labVars, quantVars, confVars, poolVars>>

\* Lines 171-172.
SetPaseSeedDuration(duration) ==
    /\ pase_seed_duration' = duration
    /\ UNCHANGED <<data, utterances_ids, returned>>
    /\ UNCHANGED <<itemVars, labVars, quantVars, confVars, poolVars>>

\* Lines 66-84: the list of data the constructor binds utterances_ids to; for
\* any other split the class attribute None stays.
UtterancesIdsOf(is_adaptation, split) ==
    CASE ~is_adaptation /\ split = "train" -> "modeling_utterances_ids_train"
      [] ~is_adaptation /\ split = "validation" -> "modeling_utterances_ids_val"
      [] ~is_adaptation /\ split = "test" -> "modeling_utterances_ids_test"
      [] is_adaptation /\ split = "train" -> "adaptation_utterances_ids_train"
      [] is_adaptation /\ split = "validation" -> "adaptation_utterances_ids_val"
      [] is_adaptation /\ split = "test" -> "adaptation_utterances_ids_test"
      [] OTHER -> "None"

Splits == {"train", "validation", "test", "other"}
PaseSeedDurations == {1, 10, 60, 120}
CorpusTypes == {"acoustic", "linguistic", "other"}

\* The state of the files before any utterance is read.
NothingRead ==
    /\ wav_file = <<>>
    /\ aco_frames = 0
    /\ lab_file = <<>>
    /\ wav_len = 0
    /\ item = NoItem
    /\ ling = NoLing

InitCorpus ==
    /\ \E type \in CorpusTypes :
          conf = [frame_size |-> 1, sequence_length |-> 2,
                  utterance_type |-> type, utterance_size |-> UtteranceSize(type)]
    /\ return_full_utterance \in BOOLEAN
    /\ NothingRead
    /\ conds_linguistic_categories = AllCategories
    /\ conds_linguistic_stads = Stads
    /\ QuantIdle
    /\ ConfBuilt
    /\ PoolIdle
    /\ data = Corpus
    /\ \E is_adaptation \in BOOLEAN, split \in Splits :
          utterances_ids = UtterancesIdsOf(is_adaptation, split)
    /\ pase_seed_duration = 60
    /\ returned = NoReturn

NextCorpus ==
    \/ \E i \in 1..MaxUtts : GetItemAt(i)
    \/ DatasetLen
    \/ ShuffleUtterances
    \/ \E i \in 1..MaxUtts : GetItemPaths(i)
    \/ \E duration \in PaseSeedDurations : SetPaseSeedDuration(duration)

SpecCorpus == InitCorpus /\ [][NextCorpus]_vars

-----------------------------------------------------------------------------
(* Construction: the quantizer and the dataset are built from the          *)
(* configuration, then used.                                               *)

\* What the configuration file may hold for q_type_ulaw and q_levels.
QTypeUlawValues == {"True", "False", "'linear'"}
QuantizerConfs == [q_type_ulaw : QTypeUlawValues, q_levels : {2, 4}]
Commands == {"train", "test"}

\* SampleRNNQuantizer.__init__, lines 80-82.
NewQuantizer ==
    /\ ~built.quantizer
    /\ q_type' = QTypeOf(quantizer_conf)
    /\ q_levels' = QLevelsOf(quantizer_conf)
    /\ built' = [built EXCEPT !.quantizer = TRUE]
    /\ UNCHANGED <<samples, quantized, dequantized, quantizer_conf>>
    /\ UNCHANGED <<itemVars, labVars, corpusVars, poolVars>>

\* SampleRNNDataset.__init__, lines 44-84: the conditioning mode of conf is
\* stored with conf and not looked at.
NewDataset ==
    /\ ~built.dataset
    /\ \E command \in Commands, is_adaptation \in BOOLEAN, split \in Splits :
          /\ return_full_utterance' = (command \notin {"train"})
          /\ utterances_ids' = UtterancesIdsOf(is_adaptation, split)
    /\ conds_linguistic_categories' =
           [cat \in Categories |->
               SortedList(data.utterances_conds_linguistic_categories[cat])]
    /\ built' = [built EXCEPT !.dataset = TRUE]
    /\ UNCHANGED <<conf, wav_file, aco_frames, wav_len, item>>
    /\ UNCHANGED <<lab_file, conds_linguistic_stads, ling>>
    /\ UNCHANGED <<data, pase_seed_duration, returned, quantizer_conf>>
    /\ UNCHANGED <<quantVars, poolVars>>

\* Nothing is constructed: the fields of the quantizer are not set (-1 and 0
\* stand for the missing attributes), those of the dataset hold the values
\* of the class.
InitConf ==
    /\ \E type \in UtteranceTypes :
          conf = [frame_size |-> 1, sequence_length |-> 2,
                  utterance_type |-> type, utterance_size |-> UtteranceSize(type)]
    /\ return_full_utterance = FALSE
    /\ NothingRead
    /\ conds_linguistic_categories = [cat \in Categories |-> <<>>]
    /\ conds_linguistic_stads = Stads
    /\ q_type = -1
    /\ q_levels = 0
    /\ samples \in {<<Zero, One>>, <<One>>}
    /\ quantized = <<>>
    /\ dequantized = <<>>
    /\ quantizer_conf \in QuantizerConfs
    /\ built = [quantizer |-> FALSE, dataset |-> FALSE]
    /\ data = Corpus
    /\ utterances_ids = "None"
    /\ pase_seed_duration = 60
    /\ returned = NoReturn
    /\ PoolIdle

NextConf ==
    \/ NewQuantizer
    \/ NewDataset
    \/ (built.dataset /\ \E i \in 1..MaxUtts : GetItemAt(i))
    \/ (built.quantizer /\ Quantize)
    \/ (built.quantizer /\ Dequantize)

SpecConf == InitConf /\ [][NextConf]_vars

-----------------------------------------------------------------------------
(* Claims on construction (SpecConf).                                      *)

ConditioningModes == {"acoustic", "linguistic", "linguistic_lf0"}

\* C11: configuration errors are raised at construction, before any per-item
\* work: a constructed quantizer has a recognized strategy, so that no quantize
\* or dequantize call fails on it, a constructed dataset has one of the three
\* conditioning modes, and no item access ends in the configuration error.
C11_ConfigurationErrorsAtConstruction ==
    /\ built.quantizer => q_type \in {LINEAR_QUANT, ULAW_QUANT}
    /\ built.dataset => conf.utterance_type \in ConditioningModes
    /\ item.status # "exit"

-----------------------------------------------------------------------------
(* Claims on the corpus index (SpecCorpus).                                *)

\* The index but for the sample counts of its utterances.
WithoutWavLen(index) ==
    [index EXCEPT !.utterances_info =
        [u \in Utterances |-> [index.utterances_info[u] EXCEPT !.wav_len = 0]]]

\* C12: every operation of the dataset leaves the corpus index as it is
\* (datasets, speakers, utterances, the lists of utterance ids of the splits
\* with their order), except that a successful item access sets the wav_len of
\* the utterance it accessed to the sample count N of its audio; an operation
\* that is not a successful item access changes nothing.
C12_CorpusIndexUnchanged ==
    [][\/ data' = data
       \/ /\ item'.status = "ok"
          /\ \E u \in Utterances :
                /\ wav_file' = FilesOf(u).wav
                /\ data' = [data EXCEPT
                               !.utterances_info[u].wav_len = Len(wav_file')]]_vars

\* The part of C12 that is not about the lists of ids.
C12_OnlyWavLenOrListOrder ==
    [][/\ WithoutWavLen(data').utterances_info = WithoutWavLen(data).utterances_info
       /\ data'.datasets_info = data.datasets_info
       /\ data'.speakers_info = data.speakers_info
       /\ \A list \in SplitLists :
             data'.utterances_ids[list] \in Rearrangements(data.utterances_ids[list])
       /\ \A u \in Utterances :
             data'.utterances_info[u].wav_len # data.utterances_info[u].wav_len =>
                 /\ item'.status = "ok"
                 /\ wav_file' = FilesOf(u).wav
                 /\ data'.utterances_info[u].wav_len = Len(wav_file')]_vars

-----------------------------------------------------------------------------
(* SampleRNNAhocoder.generate_acoustic_conds: a ThreadPoolExecutor runs    *)
(* wav2aco on every listed path.  Entry i of work is the work item of the  *)
(* i-th path: listed (not yet submitted), queued, running, done or failed  *)
(* (wav2aco raised, the exception is kept in the future nobody reads),     *)
(* with the number of times a worker started it.                           *)

MaxPaths == 3
MaxWorkers == 2
MAX_WORKERS == 50

\* The pool of the code, and small pools that fewer than 50 paths fill.
PoolSizes == 1..MaxWorkers \cup {MAX_WORKERS}

Running == Cardinality({i \in DOMAIN work : work[i].state = "running"})
InState(state) == {i \in DOMAIN work : work[i].state = state}
First(S) == CHOOSE i \in S : \A j \in S : i <= j

\* Mutant: submit starts a thread whatever the number of threads.
AdjustThreadCountUncapped(num_threads) == {num_threads + 1}

\* ThreadPoolExecutor._adjust_thread_count, called by submit: a thread is
\* started if none is waiting for work and fewer than max_workers exist.
AdjustThreadCount(num_threads) ==
    IF num_threads < max_workers
    THEN IF num_threads = 0 THEN {1} ELSE {num_threads, num_threads + 1}
    ELSE {num_threads}

\* Lines 217-218: the next path of the list is submitted.
Submit ==
    /\ call = "submitting"
    /\ InState("listed") # {}
    /\ work' = [work EXCEPT ![First(InState("listed"))].state = "queued"]
    /\ threads' \in AdjustThreadCount(threads)
    /\ UNCHANGED <<max_workers, call>>
    /\ UNCHANGED <<itemVars, labVars, quantVars, confVars, corpusVars>>

\* A thread that runs nothing takes the oldest work item of the queue.
StartWork ==
    /\ Running < threads
    /\ InState("queued") # {}
    /\ LET i == First(InState("queued"))
       IN  work' = [work EXCEPT ![i].state = "running",
                                ![i].starts = work[i].starts + 1]
    /\ UNCHANGED <<max_workers, threads, call>>
    /\ UNCHANGED <<itemVars, labVars, quantVars, confVars, corpusVars>>

\* wav2aco returns or raises: the thread stores the outcome in the future and
\* goes on with the queue.
FinishWork(i, outcome) ==
    /\ work[i].state = "running"
    /\ work' = [work EXCEPT ![i].state = outcome]
    /\ UNCHANGED <<max_workers, threads, call>>
    /\ UNCHANGED <<itemVars, labVars, quantVars, confVars, corpusVars>>

\* Mutant: the executor is shut down without waiting.
ShutdownDoneNoWait == TRUE

\* Line 216, the end of the with block: shutdown(wait=True) joins the
\* threads, which stop once the queue is empty.
ShutdownDone == \A i \in DOMAIN work : work[i].state \in {"done", "failed"}

\* The with block is left and generate_acoustic_conds returns None.
Return ==
    /\ call = "submitting"
    /\ InState("listed") = {}
    /\ ShutdownDone
    /\ call' = "returned"
    /\ UNCHANGED <<max_workers, work, threads>>
    /\ UNCHANGED <<itemVars, labVars, quantVars, confVars, corpusVars>>

\* The call has entered the with block: the executor exists, nothing is
\* submitted yet.
InitPool ==
    /\ ItemIdle
    /\ LabIdle
    /\ QuantIdle
    /\ ConfBuilt
    /\ CorpusIdle
    /\ max_workers \in PoolSizes
    /\ \E n \in 0..MaxPaths :
          work = [i \in 1..n |-> [path |-> i, state |-> "listed", starts |-> 0]]
    /\ threads = 0
    /\ call = "submitting"

NextPool ==
    \/ Submit
    \/ StartWork
    \/ \E i \in DOMAIN work, outcome \in {"done", "failed"} : FinishWork(i, outcome)
    \/ Return

SpecPool == InitPool /\ [][NextPool]_vars

-----------------------------------------------------------------------------
(* Claims on the bulk conversion (SpecPool).                               *)

Started(i) == work[i].state \in {"running", "done", "failed"}

\* C13: at no time are more conversions in progress than the pool has workers
\* (50 in the code); each listed path's conversion is started at most once at
\* any time and exactly once by the time the call returns, whatever
\* conversions failed; no failure reaches the caller; and the call returns
\* only when every conversion has finished.
C13_BoundedFireAndForget ==
    /\ Running <= max_workers
    /\ Running <= MAX_WORKERS
    /\ \A i \in DOMAIN work :
          /\ work[i].starts = (IF Started(i) THEN 1 ELSE 0)
          /\ work[i].path = i
    /\ call \in {"submitting", "returned"}
    /\ call = "returned" =>
          \A i \in DOMAIN work :
              work[i].state \in {"done", "failed"} /\ work[i].starts = 1

\* The pool is full with a path waiting in the queue, while one conversion
\* has failed and another is in progress.
C13_Witness ==
    /\ Running = max_workers
    /\ InState("queued") # {}
    /\ InState("failed") # {}
    /\ InState("running") # {}

\* The call has returned although a conversion failed, the conversions
\* submitted after the failed one having run.
C13_WitnessReturned ==
    /\ call = "returned"
    /\ \E i, j \in DOMAIN work :
          i < j /\ work[i].state = "failed" /\ work[j].state = "done"

=============================================================================
